---- MODULE Spec2Model ----
(***************************************************************************)
(* In-memory record managers of src/src: BaseManager and its two           *)
(* specialisations UserManager and ProductManager, with the validators and *)
(* the timestamp provider of src/src/utils.py.                             *)
(*                                                                         *)
(* Python values are tagged records: None, str (a sequence of one-char     *)
(* strings) and numbers.  A dict is a function from key strings to values. *)
(***************************************************************************)
EXTENDS Integers, Sequences, FiniteSets, TLC

VARIABLES storage, id_counter, now, last, issued, index, fib_cache, call,
          structures

vars == <<storage, id_counter, now, last, issued, index, fib_cache, call,
          structures>>

----------------------------------------------------------------------------
(* Bounds *)

\* largest number of records created in one manager
MaxId == 2
\* largest number of records created in the BaseManager instance, whose
\* records take arbitrary dicts
MaxBaseId == 1
\* last reading of the wall clock, in sub-second units
MaxClock == 1
\* sub-second units per second of the modelled clock
TicksPerSec == 2

----------------------------------------------------------------------------
(* Python values *)

None == [t |-> "None"]
Str(s) == [t |-> "str", s |-> s]
Num(n) == [t |-> "num", n |-> n]

\* Python truthiness: None, '' and 0 are falsy
Falsy(v) ==
    \/ v = None
    \/ v.t = "str" /\ v.s = <<>>
    \/ v.t = "num" /\ v.n = 0

\* len(str(value)) for the str values the managers are given
StrLen(v) == IF v.t = "str" THEN Len(v.s) ELSE 0

\* c in s, for a character c and a str s
Contains(c, v) == v.t = "str" /\ \E i \in 1..Len(v.s) : v.s[i] = c

\* code points of the characters that occur in the modelled strings
Ord(c) ==
    CASE c = "." -> 46
      [] c = "0" -> 48 [] c = "1" -> 49 [] c = "2" -> 50 [] c = "3" -> 51
      [] c = "4" -> 52 [] c = "5" -> 53 [] c = "6" -> 54 [] c = "7" -> 55
      [] c = "8" -> 56 [] c = "9" -> 57
      [] c = "@" -> 64
      [] OTHER -> 97

\* Python's str comparison a <= b: lexicographic by code point, a proper
\* prefix sorting first
SeqLeq(a, b) ==
    LET n == IF Len(a) < Len(b) THEN Len(a) ELSE Len(b)
        diff == {i \in 1..n : a[i] # b[i]}
    IN IF diff = {}
       THEN Len(a) <= Len(b)
       ELSE LET i == CHOOSE j \in diff : \A k \in diff : j <= k
            IN Ord(a[i]) < Ord(b[i])

StrLeq(v, w) == SeqLeq(v.s, w.s)

\* the dict {**a, **b}
Merge(a, b) ==
    [k \in DOMAIN a \cup DOMAIN b |-> IF k \in DOMAIN b THEN b[k] ELSE a[k]]

NoError == ""

----------------------------------------------------------------------------
(* src/src/utils.py *)

Digit(n) == <<"0", "1", "2", "3", "4", "5", "6", "7", "8", "9">>[n + 1]

\* datetime.isoformat(): the whole seconds, and the fractional part only
\* when it is not zero
isoformat(clock) ==
    LET sec  == clock \div TicksPerSec
        frac == clock % TicksPerSec
    IN IF frac = 0
       THEN <<Digit(sec)>>
       ELSE <<Digit(sec), ".", Digit(frac)>>

get_timestamp(clock) == Str(isoformat(clock))

validate_min_length(value, min_length, field_name) ==
    IF Falsy(value) \/ StrLen(value) < min_length
    THEN field_name \o " must be at least " \o ToString(min_length)
            \o " characters long"
    ELSE NoError

\* mutant: only negative numbers are rejected
validate_positive_number_nonneg(value, field_name) ==
    IF value = None \/ value.n < 0
    THEN field_name \o " must be greater than 0"
    ELSE NoError

validate_positive_number(value, field_name) ==
    IF Falsy(value) \/ value.n <= 0
    THEN field_name \o " must be greater than 0"
    ELSE NoError

\* mutant: any non-empty email passes
validate_email_nonempty(email) ==
    IF Falsy(email) THEN "Invalid email address" ELSE NoError

validate_email(email) ==
    IF Falsy(email) \/ ~Contains("@", email)
    THEN "Invalid email address"
    ELSE NoError

\* the exception of the first check that raises, in statement order
FirstError(errs) ==
    IF \A i \in 1..Len(errs) : errs[i] = NoError
    THEN NoError
    ELSE errs[CHOOSE i \in 1..Len(errs) :
                /\ errs[i] # NoError
                /\ \A j \in 1..(i - 1) : errs[j] = NoError]

----------------------------------------------------------------------------
(* src/src/base_manager.py, as functions of the manager's fields *)

\* the dict store with store[k] = r
Put(store, k, r) ==
    [i \in DOMAIN store \cup {k} |-> IF i = k THEN r ELSE store[i]]

\* the fresh manager's _storage = {}
EmptyStore == <<>>

\* mutant: the counter is returned without being incremented
_generate_id_stuck(counter) == counter

\* mutant: the counter is incremented twice
_generate_id_skip(counter) == counter + 2

\* self._id_counter += 1; return self._id_counter
_generate_id(counter) == counter + 1

\* mutant: the two clock readings stored under each other's key
_create_record_swapped(store, counter, data, t1, t2) ==
    LET record_id == counter + 1
        record == Merge(Merge([id |-> Num(record_id)], data),
                        [created_at |-> get_timestamp(t2),
                         updated_at |-> get_timestamp(t1)])
    IN [storage    |-> Put(store, record_id, record),
        id_counter |-> record_id,
        ret        |-> record]

\* t1 and t2 are the clock readings of the two get_timestamp() calls
_create_record(store, counter, data, t1, t2) ==
    LET record_id == _generate_id(counter)
        record == Merge(Merge([id |-> Num(record_id)], data),
                        [created_at |-> get_timestamp(t1),
                         updated_at |-> get_timestamp(t2)])
    IN [storage    |-> Put(store, record_id, record),
        id_counter |-> record_id,
        ret        |-> record]

\* mutant: every key of updates is written, None included
ApplyUpdates_all(record, updates) ==
    [k \in DOMAIN record \cup DOMAIN updates |->
        IF k \in DOMAIN updates THEN updates[k] ELSE record[k]]

\* for key, value in updates.items(): if value is not None: record[key] = value
ApplyUpdates(record, updates) ==
    LET set == {k \in DOMAIN updates : updates[k] # None}
    IN [k \in DOMAIN record \cup set |->
            IF k \in set THEN updates[k] ELSE record[k]]

\* mutant: an unknown id gets an empty record before the error is raised
_update_record_upsert(store, record_id, updates, entity_name, t) ==
    IF record_id \notin DOMAIN store
    THEN [err |-> entity_name \o " not found",
          storage |-> Put(store, record_id, [k \in {} |-> None]),
          ret |-> None]
    ELSE LET record == Merge(ApplyUpdates(store[record_id], updates),
                             [updated_at |-> get_timestamp(t)])
         IN [err     |-> NoError,
             storage |-> Put(store, record_id, record),
             ret     |-> record]

\* mutant: both timestamps are refreshed
_update_record_touch(store, record_id, updates, entity_name, t) ==
    IF record_id \notin DOMAIN store
    THEN [err |-> entity_name \o " not found", storage |-> store, ret |-> None]
    ELSE LET record == Merge(ApplyUpdates(store[record_id], updates),
                             [created_at |-> get_timestamp(t),
                              updated_at |-> get_timestamp(t)])
         IN [err     |-> NoError,
             storage |-> Put(store, record_id, record),
             ret     |-> record]

\* mutant: updated_at is refreshed only when a field value changed
_update_record_lazy(store, record_id, updates, entity_name, t) ==
    IF record_id \notin DOMAIN store
    THEN [err |-> entity_name \o " not found", storage |-> store, ret |-> None]
    ELSE LET applied == ApplyUpdates(store[record_id], updates)
             record == IF applied = store[record_id]
                       THEN applied
                       ELSE Merge(applied, [updated_at |-> get_timestamp(t)])
         IN [err     |-> NoError,
             storage |-> Put(store, record_id, record),
             ret     |-> record]

\* mutant: updated_at is left as it was
_update_record_frozen(store, record_id, updates, entity_name, t) ==
    IF record_id \notin DOMAIN store
    THEN [err |-> entity_name \o " not found", storage |-> store, ret |-> None]
    ELSE LET record == Merge(ApplyUpdates(store[record_id], updates),
                             [updated_at |-> store[record_id].updated_at])
         IN [err     |-> NoError,
             storage |-> Put(store, record_id, record),
             ret     |-> record]

\* mutant: updated_at of every stored record is refreshed
_update_record_touchall(store, record_id, updates, entity_name, t) ==
    IF record_id \notin DOMAIN store
    THEN [err |-> entity_name \o " not found", storage |-> store, ret |-> None]
    ELSE LET record == Merge(ApplyUpdates(store[record_id], updates),
                             [updated_at |-> get_timestamp(t)])
         IN [err     |-> NoError,
             storage |-> [i \in DOMAIN store |->
                             IF i = record_id THEN record
                             ELSE Merge(store[i],
                                        [updated_at |-> get_timestamp(t)])],
             ret     |-> record]

_update_record(store, record_id, updates, entity_name, t) ==
    IF record_id \notin DOMAIN store
    THEN [err |-> entity_name \o " not found", storage |-> store, ret |-> None]
    ELSE LET record == Merge(ApplyUpdates(store[record_id], updates),
                             [updated_at |-> get_timestamp(t)])
         IN [err     |-> NoError,
             storage |-> Put(store, record_id, record),
             ret     |-> record]

\* mutant: the error message ignores entity_name
_get_record_nolabel(store, record_id, entity_name) ==
    IF record_id \notin DOMAIN store
    THEN [err |-> "Record not found", ret |-> None]
    ELSE [err |-> NoError, ret |-> store[record_id]]

\* mutant: the record is returned with updated_at reset
_get_record_stamped(store, record_id, entity_name) ==
    IF record_id \notin DOMAIN store
    THEN [err |-> entity_name \o " not found", ret |-> None]
    ELSE [err |-> NoError,
          ret |-> Merge(store[record_id], [updated_at |-> get_timestamp(0)])]

_get_record(store, record_id, entity_name) ==
    IF record_id \notin DOMAIN store
    THEN [err |-> entity_name \o " not found", ret |-> None]
    ELSE [err |-> NoError, ret |-> store[record_id]]

----------------------------------------------------------------------------
(* src/src/user_manager.py and src/src/product_manager.py, as functions of  *)
(* the manager's fields.  err is the message of the ValueError raised, or   *)
(* NoError; ret is the returned record; log is the lines printed.           *)

\* mutant: the id is allocated before the arguments are validated
create_user_id_first(store, counter, username, email, password, t1, t2) ==
    LET err == FirstError(<<validate_min_length(username, 3, "Username"),
                            validate_email(email),
                            validate_min_length(password, 8, "Password")>>)
    IN IF err # NoError
       THEN [err |-> err, storage |-> store,
             id_counter |-> _generate_id(counter), ret |-> None, log |-> <<>>]
       ELSE LET r == _create_record(store, counter,
                                    [username |-> username, email |-> email,
                                     password |-> password], t1, t2)
            IN [err |-> NoError, storage |-> r.storage,
                id_counter |-> r.id_counter, ret |-> r.ret,
                log |-> << <<"User created: ", username>> >>]

create_user(store, counter, username, email, password, t1, t2) ==
    LET err == FirstError(<<validate_min_length(username, 3, "Username"),
                            validate_email(email),
                            validate_min_length(password, 8, "Password")>>)
    IN IF err # NoError
       THEN [err |-> err, storage |-> store, id_counter |-> counter,
             ret |-> None, log |-> <<>>]
       ELSE LET r == _create_record(store, counter,
                                    [username |-> username, email |-> email,
                                     password |-> password], t1, t2)
            IN [err |-> NoError, storage |-> r.storage,
                id_counter |-> r.id_counter, ret |-> r.ret,
                log |-> << <<"User created: ", username>> >>]

\* mutant: entity_name is not passed to _update_record
update_user_nolabel(store, user_id, username, email, password, t) ==
    LET err == FirstError(<<
            IF username # None
            THEN validate_min_length(username, 3, "Username") ELSE NoError,
            IF email # None THEN validate_email(email) ELSE NoError,
            IF password # None
            THEN validate_min_length(password, 8, "Password") ELSE NoError>>)
    IN IF err # NoError
       THEN [err |-> err, storage |-> store, ret |-> None, log |-> <<>>]
       ELSE LET r == _update_record(store, user_id,
                                    [username |-> username, email |-> email,
                                     password |-> password], "Record", t)
            IN IF r.err # NoError
               THEN [err |-> r.err, storage |-> r.storage, ret |-> None,
                     log |-> <<>>]
               ELSE [err |-> NoError, storage |-> r.storage, ret |-> r.ret,
                     log |-> << <<"User updated: ", r.ret.username>> >>]

\* mutant: a field is validated when it is truthy, not when it is not None
update_user_truthy(store, user_id, username, email, password, t) ==
    LET err == FirstError(<<
            IF ~Falsy(username)
            THEN validate_min_length(username, 3, "Username") ELSE NoError,
            IF ~Falsy(email) THEN validate_email(email) ELSE NoError,
            IF ~Falsy(password)
            THEN validate_min_length(password, 8, "Password") ELSE NoError>>)
    IN IF err # NoError
       THEN [err |-> err, storage |-> store, ret |-> None, log |-> <<>>]
       ELSE LET r == _update_record(store, user_id,
                                    [username |-> username, email |-> email,
                                     password |-> password], "User", t)
            IN IF r.err # NoError
               THEN [err |-> r.err, storage |-> r.storage, ret |-> None,
                     log |-> <<>>]
               ELSE [err |-> NoError, storage |-> r.storage, ret |-> r.ret,
                     log |-> << <<"User updated: ", r.ret.username>> >>]

update_user(store, user_id, username, email, password, t) ==
    LET err == FirstError(<<
            IF username # None
            THEN validate_min_length(username, 3, "Username") ELSE NoError,
            IF email # None THEN validate_email(email) ELSE NoError,
            IF password # None
            THEN validate_min_length(password, 8, "Password") ELSE NoError>>)
    IN IF err # NoError
       THEN [err |-> err, storage |-> store, ret |-> None, log |-> <<>>]
       ELSE LET r == _update_record(store, user_id,
                                    [username |-> username, email |-> email,
                                     password |-> password], "User", t)
            IN IF r.err # NoError
               THEN [err |-> r.err, storage |-> r.storage, ret |-> None,
                     log |-> <<>>]
               ELSE [err |-> NoError, storage |-> r.storage, ret |-> r.ret,
                     log |-> << <<"User updated: ", r.ret.username>> >>]

create_product(store, counter, name, description, price, t1, t2) ==
    LET err == FirstError(<<validate_min_length(name, 3, "Product name"),
                            validate_min_length(description, 10, "Description"),
                            validate_positive_number(price, "Price")>>)
    IN IF err # NoError
       THEN [err |-> err, storage |-> store, id_counter |-> counter,
             ret |-> None, log |-> <<>>]
       ELSE LET r == _create_record(store, counter,
                                    [name |-> name, description |-> description,
                                     price |-> price], t1, t2)
            IN [err |-> NoError, storage |-> r.storage,
                id_counter |-> r.id_counter, ret |-> r.ret,
                log |-> << <<"Product created: ", name>> >>]

\* mutant: each field is written as soon as it has passed its own check
update_product_partial(store, product_id, name, description, price, t) ==
    LET errs == <<
            IF name # None
            THEN validate_min_length(name, 3, "Product name") ELSE NoError,
            IF description # None
            THEN validate_min_length(description, 10, "Description")
            ELSE NoError,
            IF price # None
            THEN validate_positive_number(price, "Price") ELSE NoError>>
        err == FirstError(errs)
        args == <<name, description, price>>
        keys == <<"name", "description", "price">>
        \* the fields checked before the first failing one
        passed == {i \in 1..3 : \A j \in 1..i : errs[j] = NoError}
        r == _update_record(store, product_id,
                            [k \in {keys[i] : i \in passed} |->
                                args[CHOOSE i \in passed : keys[i] = k]],
                            "Product", t)
    IN IF r.err # NoError
       THEN [err |-> IF err # NoError THEN err ELSE r.err,
             storage |-> r.storage, ret |-> None, log |-> <<>>]
       ELSE IF err # NoError
       THEN [err |-> err, storage |-> r.storage, ret |-> None, log |-> <<>>]
       ELSE [err |-> NoError, storage |-> r.storage, ret |-> r.ret,
             log |-> << <<"Product updated: ", r.ret.name>> >>]

\* mutant: the log line names the name argument, not the stored name
update_product_logarg(store, product_id, name, description, price, t) ==
    LET err == FirstError(<<
            IF name # None
            THEN validate_min_length(name, 3, "Product name") ELSE NoError,
            IF description # None
            THEN validate_min_length(description, 10, "Description")
            ELSE NoError,
            IF price # None
            THEN validate_positive_number(price, "Price") ELSE NoError>>)
    IN IF err # NoError
       THEN [err |-> err, storage |-> store, ret |-> None, log |-> <<>>]
       ELSE LET r == _update_record(store, product_id,
                                    [name |-> name, description |-> description,
                                     price |-> price], "Product", t)
            IN IF r.err # NoError
               THEN [err |-> r.err, storage |-> r.storage, ret |-> None,
                     log |-> <<>>]
               ELSE [err |-> NoError, storage |-> r.storage, ret |-> r.ret,
                     log |-> << <<"Product updated: ", name>> >>]

update_product(store, product_id, name, description, price, t) ==
    LET err == FirstError(<<
            IF name # None
            THEN validate_min_length(name, 3, "Product name") ELSE NoError,
            IF description # None
            THEN validate_min_length(description, 10, "Description")
            ELSE NoError,
            IF price # None
            THEN validate_positive_number(price, "Price") ELSE NoError>>)
    IN IF err # NoError
       THEN [err |-> err, storage |-> store, ret |-> None, log |-> <<>>]
       ELSE LET r == _update_record(store, product_id,
                                    [name |-> name, description |-> description,
                                     price |-> price], "Product", t)
            IN IF r.err # NoError
               THEN [err |-> r.err, storage |-> r.storage, ret |-> None,
                     log |-> <<>>]
               ELSE [err |-> NoError, storage |-> r.storage, ret |-> r.ret,
                     log |-> << <<"Product updated: ", r.ret.name>> >>]

----------------------------------------------------------------------------------------------------------------------------------------
(* The managers of a program and the arguments of its calls *)

\* one instance of each class: UserManager, ProductManager, BaseManager
Managers == {"users", "products", "base"}

Rep(c, n) == [i \in 1..n |-> c]

Bob  == Str(<<"b", "o", "b">>)
Anna == Str(<<"a", "n", "n", "a">>)
Ab   == Str(<<"a", "b">>)
Mail == Str(<<"a", "@", "b">>)
Pw7  == Str(Rep("x", 7))
Pw8  == Str(Rep("x", 8))

\* (username, email, password) of the create_user calls: valid ones, and
\* ones with one or several invalid fields
CreateUserArgs ==
    {<<Bob, Mail, Pw8>>, <<Anna, Mail, Pw8>>,
     <<Ab, Mail, Pw8>>, <<Bob, Ab, Pw8>>, <<Anna, Mail, Pw7>>,
     <<Str(<<>>), Ab, Pw7>>, <<None, Mail, Pw8>>}

\* (username, email, password) of the update_user calls
UpdateUserArgs ==
    {<<None, None, None>>, <<Anna, None, None>>, <<Bob, Mail, None>>,
     <<None, Mail, Pw8>>,
     <<Ab, None, None>>, <<Anna, Ab, None>>, <<Anna, Mail, Pw7>>,
     <<Str(<<>>), None, None>>, <<None, Str(<<>>), Pw7>>}

Cup    == Str(<<"c", "u", "p">>)
Desc9  == Str(Rep("d", 9))
Desc10 == Str(Rep("d", 10))

\* (name, description, price) of the create_product calls
CreateProductArgs ==
    {<<Cup, Desc10, Num(5)>>, <<Cup, Desc10, Num(20)>>,
     <<Ab, Desc10, Num(5)>>, <<Cup, Desc9, Num(5)>>, <<Cup, Desc10, Num(0)>>,
     <<Cup, Desc10, Num(-10)>>, <<Ab, Desc9, Num(-10)>>,
     <<Cup, None, Num(5)>>}

\* (name, description, price) of the update_product calls
UpdateProductArgs ==
    {<<None, None, None>>, <<None, None, Num(20)>>, <<Cup, Desc10, None>>,
     <<None, Desc10, Num(5)>>,
     <<None, None, Num(-10)>>, <<Cup, None, Num(-10)>>, <<Cup, Desc9, None>>,
     <<Ab, None, Num(20)>>, <<None, None, Num(0)>>}

\* ids a caller passes: every id that can be issued and one that never is
IdArgs == 1..(MaxId + 1)

\* entity_name arguments; Omitted leaves the parameter to its default
Omitted == "<omitted>"
EntityArgs == {Omitted, "Widget"}
EntityName(arg) == IF arg = Omitted THEN "Record" ELSE arg

Test == Str(<<"T", "e", "s", "t">>)

\* data dicts given to BaseManager._create_record
BaseData == {[name |-> Test, value |-> Num(42)],
             [id |-> Num(7), name |-> Test]}

\* updates dicts given to BaseManager._update_record
BaseUpdates == {[name |-> Str(<<"U", "p">>), value |-> None],
                [name |-> None, value |-> None],
                [id |-> Num(7), created_at |-> Str(<<"9">>),
                 updated_at |-> Str(<<"0">>)]}

NoArgs == [k \in {} |-> None]

----------------------------------------------------------------------------
(* The program: calls on the managers, and the passing of time *)

Init ==
    /\ storage = [m \in Managers |-> EmptyStore]
    /\ id_counter = [m \in Managers |-> 0]
    /\ now = 0
    /\ last = [op |-> "__init__", mgr |-> "", id |-> 0, args |-> NoArgs,
               err |-> NoError, ret |-> None, log |-> <<>>]
    /\ issued = [m \in Managers |-> <<>>]
    /\ index = <<>>
    /\ fib_cache = <<>>
    /\ structures = [inefficient |-> <<>>, efficient |-> {}, live |-> {}]
    /\ call = [op |-> "__init__", pc |-> "done", args |-> NoArgs,
               naive |-> <<>>, optimized |-> <<>>, before |-> {}]

\* a behaviour works on one manager once it holds a record; the others stay
\* as constructed
Exclusive(m) == \A o \in Managers \ {m} : id_counter[o] = 0

\* the number of records a behaviour creates in manager m
Capacity(m) == IF m = "base" THEN MaxBaseId ELSE MaxId

\* the effect of a create call with outcome r on manager m
Created(m, op, args, r) ==
    /\ Exclusive(m)
    /\ r.err = NoError => id_counter[m] < Capacity(m)
    /\ storage' = [storage EXCEPT ![m] = r.storage]
    /\ id_counter' = [id_counter EXCEPT ![m] = r.id_counter]
    /\ issued' = IF r.err = NoError
                 THEN [issued EXCEPT ![m] = Append(@, r.ret.id)]
                 ELSE issued
    /\ last' = [op |-> op, mgr |-> m, id |-> 0, args |-> args,
                err |-> r.err, ret |-> r.ret, log |-> r.log]
    /\ UNCHANGED <<index, fib_cache, call, structures>>

\* the effect of an update call with outcome r on manager m
Updated(m, op, id, args, r) ==
    /\ Exclusive(m)
    /\ storage' = [storage EXCEPT ![m] = r.storage]
    /\ last' = [op |-> op, mgr |-> m, id |-> id, args |-> args,
                err |-> r.err, ret |-> r.ret, log |-> r.log]
    /\ UNCHANGED <<id_counter, issued, now, index, fib_cache, call,
                   structures>>

\* the clock readings of the two get_timestamp() calls of one create: the
\* clock may advance between them
Readings == {<<now, t2>> : t2 \in {now, now + 1} \cap (0..MaxClock)}

CreateUser ==
    \E a \in CreateUserArgs, t \in Readings :
        \E r \in {create_user(storage["users"], id_counter["users"],
                              a[1], a[2], a[3], t[1], t[2])} :
            /\ Created("users", "create_user",
                       [username |-> a[1], email |-> a[2], password |-> a[3]],
                       r)
            /\ now' = IF r.err = NoError THEN t[2] ELSE now

UpdateUser ==
    \E user_id \in IdArgs, a \in UpdateUserArgs :
        \E r \in {update_user(storage["users"], user_id, a[1], a[2], a[3],
                              now)} :
            Updated("users", "update_user", user_id,
                    [username |-> a[1], email |-> a[2], password |-> a[3]], r)

CreateProduct ==
    \E a \in CreateProductArgs, t \in Readings :
        \E r \in {create_product(storage["products"], id_counter["products"],
                                 a[1], a[2], a[3], t[1], t[2])} :
            /\ Created("products", "create_product",
                       [name |-> a[1], description |-> a[2], price |-> a[3]],
                       r)
            /\ now' = IF r.err = NoError THEN t[2] ELSE now

UpdateProduct ==
    \E product_id \in IdArgs, a \in UpdateProductArgs :
        \E r \in {update_product(storage["products"], product_id,
                                 a[1], a[2], a[3], now)} :
            Updated("products", "update_product", product_id,
                    [name |-> a[1], description |-> a[2], price |-> a[3]], r)

\* BaseManager._create_record called on the BaseManager instance
CreateRecord ==
    \E data \in BaseData, t \in Readings :
        \E r \in {_create_record(storage["base"], id_counter["base"], data,
                                 t[1], t[2])} :
            /\ Created("base", "_create_record", [data |-> data],
                       [err |-> NoError, storage |-> r.storage,
                        id_counter |-> r.id_counter, ret |-> r.ret,
                        log |-> <<>>])
            /\ now' = t[2]

\* BaseManager._update_record called on the BaseManager instance
UpdateRecord ==
    \E record_id \in IdArgs, updates \in BaseUpdates, e \in EntityArgs :
        \E r \in {_update_record(storage["base"], record_id, updates,
                                 EntityName(e), now)} :
            Updated("base", "_update_record", record_id,
                    [updates |-> updates, entity_name |-> e],
                    [err |-> r.err, storage |-> r.storage, ret |-> r.ret,
                     log |-> <<>>])

\* BaseManager._get_record called on any manager
GetRecord ==
    \E m \in Managers, record_id \in IdArgs, e \in EntityArgs :
        \E r \in {_get_record(storage[m], record_id, EntityName(e))} :
            /\ Exclusive(m)
            /\ last' = [op |-> "_get_record", mgr |-> m, id |-> record_id,
                        args |-> [entity_name |-> e], err |-> r.err,
                        ret |-> r.ret, log |-> <<>>]
            /\ UNCHANGED <<storage, id_counter, issued, now, index, fib_cache,
                           call, structures>>

\* time passes between two calls
Tick ==
    /\ now < MaxClock
    /\ now' = now + 1
    /\ UNCHANGED <<storage, id_counter, last, issued, index, fib_cache, call,
                   structures>>

Next ==
    \/ CreateUser
    \/ UpdateUser
    \/ CreateProduct
    \/ UpdateProduct
    \/ CreateRecord
    \/ UpdateRecord
    \/ GetRecord
    \/ Tick

Spec == Init /\ [][Next]_vars

----------------------------------------------------------------------------
(* Several managers at work in one program: each manager up to its first    *)
(* record, with a few calls of every kind                                    *)

MultiCreateUserArgs == {<<Bob, Mail, Pw8>>, <<Ab, Mail, Pw8>>}
MultiUpdateUserArgs == {<<Anna, None, None>>, <<Ab, None, None>>}
MultiCreateProductArgs == {<<Cup, Desc10, Num(5)>>, <<Cup, Desc10, Num(0)>>}
MultiUpdateProductArgs == {<<None, None, Num(20)>>, <<None, Desc9, None>>}
MultiData == {[name |-> Test, value |-> Num(42)]}
MultiUpdates == {[name |-> Str(<<"U", "p">>), value |-> None]}

\* the id of the first record and an id that is not issued
MultiIds == {1, 2}

\* mutant: _id_counter is an attribute of the class, shared by the instances
MultiCreated_shared(m, op, args, r) ==
    /\ r.err = NoError => id_counter[m] = 0
    /\ storage' = [storage EXCEPT ![m] = r.storage]
    /\ id_counter' = [o \in Managers |-> r.id_counter]
    /\ issued' = IF r.err = NoError
                 THEN [issued EXCEPT ![m] = Append(@, r.ret.id)]
                 ELSE issued
    /\ last' = [op |-> op, mgr |-> m, id |-> 0, args |-> args,
                err |-> r.err, ret |-> r.ret, log |-> r.log]
    /\ UNCHANGED <<index, fib_cache, call, structures>>

\* the effect of a create call with outcome r on manager m, whose _storage
\* and _id_counter are attributes of the instance
MultiCreated(m, op, args, r) ==
    /\ r.err = NoError => id_counter[m] = 0
    /\ storage' = [storage EXCEPT ![m] = r.storage]
    /\ id_counter' = [id_counter EXCEPT ![m] = r.id_counter]
    /\ issued' = IF r.err = NoError
                 THEN [issued EXCEPT ![m] = Append(@, r.ret.id)]
                 ELSE issued
    /\ last' = [op |-> op, mgr |-> m, id |-> 0, args |-> args,
                err |-> r.err, ret |-> r.ret, log |-> r.log]
    /\ UNCHANGED <<index, fib_cache, call, structures>>

\* the effect of an update call with outcome r on manager m
MultiUpdated(m, op, id, args, r) ==
    /\ storage' = [storage EXCEPT ![m] = r.storage]
    /\ last' = [op |-> op, mgr |-> m, id |-> id, args |-> args,
                err |-> r.err, ret |-> r.ret, log |-> r.log]
    /\ UNCHANGED <<id_counter, issued, now, index, fib_cache, call,
                   structures>>

MultiCreateUser ==
    \E a \in MultiCreateUserArgs, t \in Readings :
        \E r \in {create_user(storage["users"], id_counter["users"],
                              a[1], a[2], a[3], t[1], t[2])} :
            /\ MultiCreated("users", "create_user",
                            [username |-> a[1], email |-> a[2],
                             password |-> a[3]], r)
            /\ now' = IF r.err = NoError THEN t[2] ELSE now

MultiUpdateUser ==
    \E user_id \in MultiIds, a \in MultiUpdateUserArgs :
        \E r \in {update_user(storage["users"], user_id, a[1], a[2], a[3],
                              now)} :
            MultiUpdated("users", "update_user", user_id,
                         [username |-> a[1], email |-> a[2],
                          password |-> a[3]], r)

MultiCreateProduct ==
    \E a \in MultiCreateProductArgs, t \in Readings :
        \E r \in {create_product(storage["products"], id_counter["products"],
                                 a[1], a[2], a[3], t[1], t[2])} :
            /\ MultiCreated("products", "create_product",
                            [name |-> a[1], description |-> a[2],
                             price |-> a[3]], r)
            /\ now' = IF r.err = NoError THEN t[2] ELSE now

MultiUpdateProduct ==
    \E product_id \in MultiIds, a \in MultiUpdateProductArgs :
        \E r \in {update_product(storage["products"], product_id,
                                 a[1], a[2], a[3], now)} :
            MultiUpdated("products", "update_product", product_id,
                         [name |-> a[1], description |-> a[2],
                          price |-> a[3]], r)

MultiCreateRecord ==
    \E data \in MultiData, t \in Readings :
        \E r \in {_create_record(storage["base"], id_counter["base"], data,
                                 t[1], t[2])} :
            /\ MultiCreated("base", "_create_record", [data |-> data],
                            [err |-> NoError, storage |-> r.storage,
                             id_counter |-> r.id_counter, ret |-> r.ret,
                             log |-> <<>>])
            /\ now' = t[2]

MultiUpdateRecord ==
    \E record_id \in MultiIds, updates \in MultiUpdates :
        \E r \in {_update_record(storage["base"], record_id, updates,
                                 EntityName(Omitted), now)} :
            MultiUpdated("base", "_update_record", record_id,
                         [updates |-> updates, entity_name |-> Omitted],
                         [err |-> r.err, storage |-> r.storage,
                          ret |-> r.ret, log |-> <<>>])

MultiGetRecord ==
    \E m \in Managers, record_id \in MultiIds :
        \E r \in {_get_record(storage[m], record_id, EntityName(Omitted))} :
            /\ last' = [op |-> "_get_record", mgr |-> m, id |-> record_id,
                        args |-> [entity_name |-> Omitted], err |-> r.err,
                        ret |-> r.ret, log |-> <<>>]
            /\ UNCHANGED <<storage, id_counter, issued, now, index, fib_cache,
                           call, structures>>

NextMulti ==
    \/ MultiCreateUser
    \/ MultiUpdateUser
    \/ MultiCreateProduct
    \/ MultiUpdateProduct
    \/ MultiCreateRecord
    \/ MultiUpdateRecord
    \/ MultiGetRecord
    \/ Tick

SpecMulti == Init /\ [][NextMulti]_vars

----------------------------------------------------------------------------
(* data_processor.py and data_processor_optimized.py: the methods that keep *)
(* state between calls                                                       *)

\* the largest argument of compute_fibonacci
MaxFib == 8

\* DataProcessor.search_records: a linear scan of the list passed in
RECURSIVE DataProcessor_search_records(_, _, _)
DataProcessor_search_records(records, search_key, search_value) ==
    IF records = <<>> THEN <<>>
    ELSE LET record == Head(records)
             rest == DataProcessor_search_records(Tail(records), search_key,
                                                  search_value)
         IN  IF /\ search_key \in DOMAIN record
                /\ record[search_key] = search_value
             THEN <<record>> \o rest
             ELSE rest

\* the loop of OptimizedDataProcessor.search_records that fills
\* self.index[search_key], started with {}
RECURSIVE BuildIndex(_, _, _)
BuildIndex(idx, records, search_key) ==
    IF records = <<>> THEN idx
    ELSE LET record == Head(records)
         IN  IF search_key \in DOMAIN record
             THEN LET key_val == record[search_key]
                      bucket == IF key_val \in DOMAIN idx THEN idx[key_val]
                                ELSE <<>>
                  IN  BuildIndex(Put(idx, key_val, Append(bucket, record)),
                                 Tail(records), search_key)
             ELSE BuildIndex(idx, Tail(records), search_key)

\* OptimizedDataProcessor.search_records on a processor whose self.index is
\* idx: the index of a key is built from the records of the first call that
\* names the key, and every later call reads it
Optimized_search_records(idx, records, search_key, search_value) ==
    LET built == IF search_key \in DOMAIN idx THEN idx
                 ELSE Put(idx, search_key,
                          BuildIndex(<<>>, records, search_key))
    IN  [index |-> built,
         ret |-> IF search_value \in DOMAIN built[search_key]
                 THEN built[search_key][search_value]
                 ELSE <<>>]

\* DataProcessor.compute_fibonacci: plain recursion
RECURSIVE DataProcessor_compute_fibonacci(_)
DataProcessor_compute_fibonacci(n) ==
    IF n <= 1 THEN n
    ELSE DataProcessor_compute_fibonacci(n - 1)
         + DataProcessor_compute_fibonacci(n - 2)

\* mutant: the result is cached under the wrong argument
RECURSIVE Optimized_compute_fibonacci_wrongkey(_, _)
Optimized_compute_fibonacci_wrongkey(cache, n) ==
    IF n \in DOMAIN cache THEN [val |-> cache[n], cache |-> cache]
    ELSE IF n <= 1 THEN [val |-> n, cache |-> Put(cache, 1 - n, n)]
    ELSE LET r1 == Optimized_compute_fibonacci_wrongkey(cache, n - 1)
             r2 == Optimized_compute_fibonacci_wrongkey(r1.cache, n - 2)
         IN  [val |-> r1.val + r2.val,
              cache |-> Put(r2.cache, n, r1.val + r2.val)]

\* OptimizedDataProcessor.compute_fibonacci under @lru_cache(maxsize=None):
\* a cached argument is answered from the cache, any other is computed by the
\* body, whose recursive calls go through the cache too, and then cached
RECURSIVE Optimized_compute_fibonacci(_, _)
Optimized_compute_fibonacci(cache, n) ==
    IF n \in DOMAIN cache THEN [val |-> cache[n], cache |-> cache]
    ELSE IF n <= 1 THEN [val |-> n, cache |-> Put(cache, n, n)]
    ELSE LET r1 == Optimized_compute_fibonacci(cache, n - 1)
             r2 == Optimized_compute_fibonacci(r1.cache, n - 2)
         IN  [val |-> r1.val + r2.val,
              cache |-> Put(r2.cache, n, r1.val + r2.val)]

\* records as the tests build them, one of them without a name
RecAlice == [name |-> "Alice", category |-> "A"]
RecBob == [name |-> "Bob", category |-> "B"]
RecAnon == [category |-> "A"]

RecordLists == {<<RecAlice, RecBob>>, <<RecBob, RecAnon>>, <<RecAlice>>}
SearchKeys == {"name", "category"}
SearchValues == {"Alice", "Bob", "A"}

\* both processors are asked the same search; the optimized one keeps its
\* index
SearchRecords ==
    \E records \in RecordLists, search_key \in SearchKeys,
       search_value \in SearchValues :
        \E r \in {Optimized_search_records(index, records, search_key,
                                           search_value)} :
            /\ index' = r.index
            /\ call' = [op |-> "search_records", pc |-> "done",
                        args |-> [records |-> records,
                                  search_key |-> search_key,
                                  search_value |-> search_value],
                        naive |-> DataProcessor_search_records(
                                      records, search_key, search_value),
                        optimized |-> r.ret,
                        before |-> DOMAIN index]
            /\ UNCHANGED <<storage, id_counter, now, last, issued, fib_cache,
                           structures>>

\* both processors are asked the same Fibonacci number; the optimized one
\* keeps its cache
ComputeFibonacci ==
    \E n \in 0..MaxFib :
        \E r \in {Optimized_compute_fibonacci(fib_cache, n)} :
            /\ fib_cache' = r.cache
            /\ call' = [op |-> "compute_fibonacci", pc |-> "done",
                        args |-> [n |-> n],
                        naive |-> DataProcessor_compute_fibonacci(n),
                        optimized |-> r.val,
                        before |-> DOMAIN fib_cache]
            /\ UNCHANGED <<storage, id_counter, now, last, issued, index,
                           structures>>

\* OptimizedDataProcessor.clear_cache
ClearCache ==
    /\ index' = <<>>
    /\ fib_cache' = <<>>
    /\ call' = [op |-> "clear_cache", pc |-> "done", args |-> NoArgs,
                naive |-> <<>>, optimized |-> <<>>, before |-> {}]
    /\ UNCHANGED <<storage, id_counter, now, last, issued, structures>>

NextProcessor ==
    \/ SearchRecords
    \/ ComputeFibonacci
    \/ ClearCache

SpecProcessor == Init /\ [][NextProcessor]_vars

----------------------------------------------------------------------------
(* data_processor.py and data_processor_optimized.py: the methods that are  *)
(* functions of their arguments                                              *)

\* the longest list of items and the largest item
MaxLen == 3
MaxItem == 2

\* the longest list of words and the longest word
MaxWords == 2
MaxWordLen == 2

\* the longest dataset of merge_datasets
MaxMergeLen == 2

\* set(items)
ToSet(items) == {items[i] : i \in DOMAIN items}

\* `item in items` on a list
InList(item, items) == \E i \in DOMAIN items : items[i] = item

\* the lists list(s) can return for a set s: the iteration order of a set is
\* not fixed by the language
Orderings(S) ==
    {o \in [1..Cardinality(S) -> S] :
        \A i, j \in 1..Cardinality(S) : i # j => o[i] # o[j]}

\* the inner loop of DataProcessor.find_duplicates, from index j on (1-based)
RECURSIVE FindDuplicatesInner(_, _, _, _)
FindDuplicatesInner(items, i, j, duplicates) ==
    IF j > Len(items) THEN duplicates
    ELSE FindDuplicatesInner(
             items, i, j + 1,
             IF items[i] = items[j] /\ ~InList(items[i], duplicates)
             THEN Append(duplicates, items[i])
             ELSE duplicates)

\* the outer loop of DataProcessor.find_duplicates, from index i on
RECURSIVE FindDuplicatesOuter(_, _, _)
FindDuplicatesOuter(items, i, duplicates) ==
    IF i > Len(items) THEN duplicates
    ELSE FindDuplicatesOuter(items, i + 1,
                             FindDuplicatesInner(items, i, i + 1, duplicates))

DataProcessor_find_duplicates(items) == FindDuplicatesOuter(items, 1, <<>>)

\* the loop of OptimizedDataProcessor.find_duplicates over the sets seen and
\* duplicates
RECURSIVE SeenLoop(_, _, _)
SeenLoop(items, seen, duplicates) ==
    IF items = <<>> THEN [seen |-> seen, duplicates |-> duplicates]
    ELSE IF Head(items) \in seen
         THEN SeenLoop(Tail(items), seen, duplicates \cup {Head(items)})
         ELSE SeenLoop(Tail(items), seen \cup {Head(items)}, duplicates)

\* mutant: the list of the items seen is returned
Optimized_find_duplicates_seen(items) ==
    Orderings(SeenLoop(items, {}, {}).seen)

\* OptimizedDataProcessor.find_duplicates: the lists list(duplicates) can be
Optimized_find_duplicates(items) ==
    Orderings(SeenLoop(items, {}, {}).duplicates)

\* the first pass of DataProcessor.filter_and_transform
RECURSIVE Filtered(_, _)
Filtered(data, threshold) ==
    IF data = <<>> THEN <<>>
    ELSE IF Head(data) > threshold
         THEN <<Head(data)>> \o Filtered(Tail(data), threshold)
         ELSE Filtered(Tail(data), threshold)

\* the second pass: item ** 2
RECURSIVE Squared(_)
Squared(filtered) ==
    IF filtered = <<>> THEN <<>>
    ELSE <<Head(filtered) * Head(filtered)>> \o Squared(Tail(filtered))

\* sorted_data.insert(i, item) at the first i with item < sorted_data[i],
\* sorted_data.append(item) when there is none
InsertSorted(sorted_data, item) ==
    LET larger == {i \in DOMAIN sorted_data : item < sorted_data[i]}
    IN  IF larger = {} THEN Append(sorted_data, item)
        ELSE LET i == CHOOSE k \in larger : \A l \in larger : k <= l
             IN  SubSeq(sorted_data, 1, i - 1) \o <<item>>
                 \o SubSeq(sorted_data, i, Len(sorted_data))

\* the third pass: every squared item is inserted into sorted_data
RECURSIVE InsertAll(_, _)
InsertAll(squared, sorted_data) ==
    IF squared = <<>> THEN sorted_data
    ELSE InsertAll(Tail(squared), InsertSorted(sorted_data, Head(squared)))

DataProcessor_filter_and_transform(data, threshold) ==
    InsertAll(Squared(Filtered(data, threshold)), <<>>)

\* the list without its element at index i
RemoveAt(items, i) ==
    SubSeq(items, 1, i - 1) \o SubSeq(items, i + 1, Len(items))

\* sorted(items) of integers: smallest first
RECURSIVE sorted(_)
sorted(items) ==
    IF items = <<>> THEN <<>>
    ELSE LET i == CHOOSE k \in DOMAIN items :
                      \A l \in DOMAIN items : items[k] <= items[l]
         IN  <<items[i]>> \o sorted(RemoveAt(items, i))

\* mutant: items equal to the threshold pass the filter
RECURSIVE FilteredSquared_geq(_, _)
FilteredSquared_geq(data, threshold) ==
    IF data = <<>> THEN <<>>
    ELSE IF Head(data) >= threshold
         THEN <<Head(data) * Head(data)>>
              \o FilteredSquared_geq(Tail(data), threshold)
         ELSE FilteredSquared_geq(Tail(data), threshold)

\* [item ** 2 for item in data if item > threshold]
RECURSIVE FilteredSquared(_, _)
FilteredSquared(data, threshold) ==
    IF data = <<>> THEN <<>>
    ELSE IF Head(data) > threshold
         THEN <<Head(data) * Head(data)>>
              \o FilteredSquared(Tail(data), threshold)
         ELSE FilteredSquared(Tail(data), threshold)

Optimized_filter_and_transform(data, threshold) ==
    sorted(FilteredSquared(data, threshold))

\* the loop of DataProcessor.merge_datasets that keeps the first occurrence
\* of every item
RECURSIVE Unique(_, _)
Unique(merged, unique) ==
    IF merged = <<>> THEN unique
    ELSE Unique(Tail(merged),
                IF InList(Head(merged), unique) THEN unique
                ELSE Append(unique, Head(merged)))

DataProcessor_merge_datasets(dataset1, dataset2) ==
    Unique(dataset1 \o dataset2, <<>>)

\* mutant: the second dataset is not merged
Optimized_merge_datasets_first(dataset1, dataset2) ==
    Orderings(ToSet(dataset1))

\* OptimizedDataProcessor.merge_datasets on hashable items: the lists
\* list(set(merged)) can be
Optimized_merge_datasets(dataset1, dataset2) ==
    Orderings(ToSet(dataset1 \o dataset2))

\* str.strip() of a string of characters: the whitespace at both ends goes
RECURSIVE strip(_)
strip(chars) ==
    IF chars = <<>> THEN <<>>
    ELSE IF Head(chars) = " " THEN strip(Tail(chars))
    ELSE IF chars[Len(chars)] = " "
         THEN strip(SubSeq(chars, 1, Len(chars) - 1))
    ELSE chars

\* the loop of DataProcessor.string_operations: result + word + " "
RECURSIVE Concatenated(_, _)
Concatenated(words, result) ==
    IF words = <<>> THEN result
    ELSE Concatenated(Tail(words), result \o Head(words) \o <<" ">>)

DataProcessor_string_operations(words) == strip(Concatenated(words, <<>>))

\* " ".join(words)
RECURSIVE Optimized_string_operations(_)
Optimized_string_operations(words) ==
    IF words = <<>> THEN <<>>
    ELSE IF Len(words) = 1 THEN Head(words)
    ELSE Head(words) \o <<" ">> \o Optimized_string_operations(Tail(words))

\* the largest number of rows and of columns of a matrix
MaxDim == 2

\* value += matrix1[i][k] * matrix2[k][j] for k in range(cols1), from k on
RECURSIVE DotLoop(_, _, _, _, _, _)
DotLoop(matrix1, matrix2, i, j, k, value) ==
    IF k > Len(matrix1[1]) THEN value
    ELSE DotLoop(matrix1, matrix2, i, j, k + 1,
                 value + matrix1[i][k] * matrix2[k][j])

\* DataProcessor.matrix_multiply; err is the message of the ValueError
DataProcessor_matrix_multiply(matrix1, matrix2) ==
    IF \/ matrix1 = <<>>
       \/ matrix2 = <<>>
       \/ matrix1[1] = <<>>
       \/ matrix2[1] = <<>>
    THEN [err |-> "Matrices cannot be empty", ret |-> None]
    ELSE LET rows1 == Len(matrix1)
             cols1 == Len(matrix1[1])
             rows2 == Len(matrix2)
             cols2 == Len(matrix2[1])
         IN  IF cols1 # rows2
             THEN [err |-> "Matrix dimensions incompatible", ret |-> None]
             ELSE [err |-> NoError,
                   ret |-> [i \in 1..rows1 |->
                               [j \in 1..cols2 |->
                                   DotLoop(matrix1, matrix2, i, j, 1, 0)]]]

\* sum(...) of a sequence of numbers
RECURSIVE sum(_)
sum(numbers) ==
    IF numbers = <<>> THEN 0 ELSE Head(numbers) + sum(Tail(numbers))

\* mutant: the products are summed from the second column on
Optimized_matrix_multiply_skip(matrix1, matrix2) ==
    LET rows1 == Len(matrix1)
        cols1 == Len(matrix1[1])
        rows2 == Len(matrix2)
        cols2 == Len(matrix2[1])
    IN  IF cols1 # rows2
        THEN [err |-> "Matrix dimensions incompatible", ret |-> None]
        ELSE [err |-> NoError,
              ret |-> [i \in 1..rows1 |->
                          [j \in 1..cols2 |->
                              sum([k \in 1..(cols1 - 1) |->
                                      matrix1[i][k + 1] * matrix2[k + 1][j]])]]]

\* OptimizedDataProcessor.matrix_multiply
Optimized_matrix_multiply(matrix1, matrix2) ==
    LET rows1 == Len(matrix1)
        cols1 == Len(matrix1[1])
        rows2 == Len(matrix2)
        cols2 == Len(matrix2[1])
    IN  IF cols1 # rows2
        THEN [err |-> "Matrix dimensions incompatible", ret |-> None]
        ELSE [err |-> NoError,
              ret |-> [i \in 1..rows1 |->
                          [j \in 1..cols2 |->
                              sum([k \in 1..cols1 |->
                                      matrix1[i][k] * matrix2[k][j]])]]]

\* str(item) of a one-digit number
str(item) == <<Digit(item)>>

\* inefficient_list_concatenation: result + str(item) + ","
RECURSIVE inefficient_list_concatenation(_)
inefficient_list_concatenation(items) ==
    IF items = <<>> THEN <<>>
    ELSE str(Head(items)) \o <<",">>
         \o inefficient_list_concatenation(Tail(items))

\* efficient_list_concatenation: ",".join(str(item) for item in items)
RECURSIVE efficient_list_concatenation(_)
efficient_list_concatenation(items) ==
    IF items = <<>> THEN <<>>
    ELSE IF Len(items) = 1 THEN str(Head(items))
    ELSE str(Head(items)) \o <<",">>
         \o efficient_list_concatenation(Tail(items))

\* the lists of at most n elements of S
ListsOf(S, n) == UNION {[1..k -> S] : k \in 0..n}

\* the characters of a word: a letter and the space
Chars == {"a", " "}

Words == ListsOf(Chars, MaxWordLen)
Items == 0..MaxItem
IntItems == (0 - MaxItem)..MaxItem

\* the entries of the matrices drawn, and the matrices of the tests
Entries == {0 - 1, 2}
Matrices ==
    UNION {[1..rows -> [1..cols -> Entries]] :
               rows \in 1..MaxDim, cols \in 1..MaxDim}
Identity(n) == [i \in 1..n |-> [j \in 1..n |-> IF i = j THEN 1 ELSE 0]]
TestMatrices ==
    {Identity(n) : n \in 1..MaxDim}
    \cup {<<<<1, 2>>, <<3, 4>>>>, <<<<5, 6>>, <<7, 8>>>>, <<<<1, 2, 3>>>>}

Ready(op, args) ==
    [op |-> op, pc |-> "ready", args |-> args, naive |-> <<>>,
     optimized |-> <<>>, before |-> {}]

\* the methods and functions a behaviour can call
Methods == {"string_operations", "find_duplicates", "filter_and_transform",
            "merge_datasets", "matrix_multiply", "list_concatenation"}

\* the calls of op a behaviour can make, one per behaviour
Calls(op) ==
    CASE op = "string_operations" ->
            {Ready(op, [words |-> w]) : w \in ListsOf(Words, MaxWords)}
      [] op = "find_duplicates" ->
            {Ready(op, [items |-> i]) : i \in ListsOf(Items, MaxLen)}
      [] op = "filter_and_transform" ->
            {Ready(op, [data |-> d, threshold |-> t]) :
                 d \in ListsOf(IntItems, MaxLen), t \in IntItems}
      [] op = "merge_datasets" ->
            {Ready(op, [dataset1 |-> d1, dataset2 |-> d2]) :
                 d1 \in ListsOf(Items, MaxMergeLen),
                 d2 \in ListsOf(Items, MaxMergeLen)}
      [] op = "matrix_multiply" ->
            {Ready(op, [matrix1 |-> m1, matrix2 |-> m2]) :
                 m1 \in Matrices \cup TestMatrices, m2 \in TestMatrices}
            \cup {Ready(op, [matrix1 |-> m1, matrix2 |-> m2]) :
                      m1 \in TestMatrices, m2 \in Matrices}
      [] op = "list_concatenation" ->
            {Ready(op, [items |-> i]) : i \in ListsOf(Items, MaxLen)}

InitFunctions ==
    /\ storage = [m \in Managers |-> EmptyStore]
    /\ id_counter = [m \in Managers |-> 0]
    /\ now = 0
    /\ last = [op |-> "__init__", mgr |-> "", id |-> 0, args |-> NoArgs,
               err |-> NoError, ret |-> None, log |-> <<>>]
    /\ issued = [m \in Managers |-> <<>>]
    /\ index = <<>>
    /\ fib_cache = <<>>
    /\ structures = [inefficient |-> <<>>, efficient |-> {}, live |-> {}]
    /\ \E op \in Methods : call \in Calls(op)

\* both processors return from the call: naive is DataProcessor's result,
\* optimized is OptimizedDataProcessor's
Returned(naive, optimized) ==
    /\ call' = [call EXCEPT !.pc = "done", !.naive = naive,
                            !.optimized = optimized]
    /\ UNCHANGED <<storage, id_counter, now, last, issued, index, fib_cache,
                   structures>>

StringOperations ==
    /\ call.pc = "ready"
    /\ call.op = "string_operations"
    /\ Returned(DataProcessor_string_operations(call.args.words),
                Optimized_string_operations(call.args.words))

FindDuplicates ==
    /\ call.pc = "ready"
    /\ call.op = "find_duplicates"
    /\ \E optimized \in Optimized_find_duplicates(call.args.items) :
           Returned(DataProcessor_find_duplicates(call.args.items), optimized)

FilterAndTransform ==
    /\ call.pc = "ready"
    /\ call.op = "filter_and_transform"
    /\ Returned(DataProcessor_filter_and_transform(call.args.data,
                                                   call.args.threshold),
                Optimized_filter_and_transform(call.args.data,
                                               call.args.threshold))

MergeDatasets ==
    /\ call.pc = "ready"
    /\ call.op = "merge_datasets"
    /\ \E optimized \in Optimized_merge_datasets(call.args.dataset1,
                                                 call.args.dataset2) :
           Returned(DataProcessor_merge_datasets(call.args.dataset1,
                                                 call.args.dataset2),
                    optimized)

MatrixMultiply ==
    /\ call.pc = "ready"
    /\ call.op = "matrix_multiply"
    /\ Returned(DataProcessor_matrix_multiply(call.args.matrix1,
                                              call.args.matrix2),
                Optimized_matrix_multiply(call.args.matrix1,
                                          call.args.matrix2))

\* the two functions of the examples are given the same items: naive is the
\* inefficient one's result, optimized the efficient one's
ListConcatenation ==
    /\ call.pc = "ready"
    /\ call.op = "list_concatenation"
    /\ Returned(inefficient_list_concatenation(call.args.items),
                efficient_list_concatenation(call.args.items))

NextFunctions ==
    \/ StringOperations
    \/ FindDuplicates
    \/ FilterAndTransform
    \/ MergeDatasets
    \/ MatrixMultiply
    \/ ListConcatenation

SpecFunctions == InitFunctions /\ [][NextFunctions]_vars

----------------------------------------------------------------------------
(* examples/inefficient_example.py and examples/efficient_example.py: the   *)
(* list-backed and the set-backed data structure, driven by the same calls  *)

\* mutant: the item is appended without the membership test
Inefficient_add_item_nocheck(items, item) == Append(items, item)

\* InefficientDataStructure.add_item
Inefficient_add_item(items, item) ==
    IF ~InList(item, items) THEN Append(items, item) ELSE items

\* InefficientDataStructure.has_item
Inefficient_has_item(items, item) == InList(item, items)

\* InefficientDataStructure.remove_item: list.remove takes the first
\* occurrence out
Inefficient_remove_item(items, item) ==
    IF InList(item, items)
    THEN RemoveAt(items, CHOOSE i \in DOMAIN items :
                             /\ items[i] = item
                             /\ \A j \in 1..(i - 1) : items[j] # item)
    ELSE items

\* EfficientDataStructure.add_item: set.add
Efficient_add_item(items, item) == items \cup {item}

\* EfficientDataStructure.has_item
Efficient_has_item(items, item) == item \in items

\* EfficientDataStructure.remove_item: set.discard
Efficient_remove_item(items, item) == items \ {item}

\* both structures are given the same item; live is the history: the items
\* whose last add_item was not followed by a remove_item
AddItem ==
    \E item \in Items :
        /\ structures' =
               [inefficient |-> Inefficient_add_item(structures.inefficient,
                                                     item),
                efficient |-> Efficient_add_item(structures.efficient, item),
                live |-> structures.live \cup {item}]
        /\ call' = [op |-> "add_item", pc |-> "done", args |-> [item |-> item],
                    naive |-> <<>>, optimized |-> <<>>,
                    before |-> structures.efficient]
        /\ UNCHANGED <<storage, id_counter, now, last, issued, index,
                       fib_cache>>

RemoveItem ==
    \E item \in Items :
        /\ structures' =
               [inefficient |-> Inefficient_remove_item(structures.inefficient,
                                                        item),
                efficient |-> Efficient_remove_item(structures.efficient,
                                                    item),
                live |-> structures.live \ {item}]
        /\ call' = [op |-> "remove_item", pc |-> "done",
                    args |-> [item |-> item],
                    naive |-> <<>>, optimized |-> <<>>,
                    before |-> structures.efficient]
        /\ UNCHANGED <<storage, id_counter, now, last, issued, index,
                       fib_cache>>

\* naive is the list-backed structure's answer, optimized the set-backed's
HasItem ==
    \E item \in Items :
        /\ call' = [op |-> "has_item", pc |-> "done", args |-> [item |-> item],
                    naive |-> Inefficient_has_item(structures.inefficient,
                                                   item),
                    optimized |-> Efficient_has_item(structures.efficient,
                                                     item),
                    before |-> structures.efficient]
        /\ UNCHANGED <<storage, id_counter, now, last, issued, index,
                       fib_cache, structures>>

NextStructures ==
    \/ AddItem
    \/ RemoveItem
    \/ HasItem

SpecStructures == Init /\ [][NextStructures]_vars

----------------------------------------------------------------------------
(* Vocabulary of the properties *)

CreateOps == {"create_user", "create_product"}
UpdateOps == {"update_user", "update_product"}
BaseUpdateOps == UpdateOps \cup {"_update_record"}
Specialised == {"users", "products"}

\* the messages of the not-found error
NotFoundErrors == {"Record not found", "Widget not found", "User not found",
                   "Product not found"}

\* keys that _create_record and _update_record maintain themselves
MetaKeys == {"id", "created_at", "updated_at"}

\* the step is a call (time does not pass inside update and get calls)
CallStep == now' = now

\* the updates dict of the last call, an update
LastUpdates(l) == IF l.op = "_update_record" THEN l.args.updates ELSE l.args

----------------------------------------------------------------------------
(* Properties *)

\* C1: in a UserManager or ProductManager the k-th successful create returns
\* id k, whatever failing creates, updates and lookups come in between: the
\* returned ids are 1, 2, 3, ... without gap or repetition.
C1_SequentialIds ==
    \A m \in Specialised :
        \A k \in 1..Len(issued[m]) : issued[m][k] = Num(k)

\* a second product was created after a call that failed
C1_Witness ==
    /\ Len(issued["products"]) >= 2
    /\ last.op = "update_product"
    /\ last.err # NoError

\* C2: a create_user or create_product call that fails validation changes
\* neither the store nor _id_counter, and a successful create returns the
\* number of successful creates before it plus one, failed calls not counted.
C2_FailedCreateNoEffect ==
    [][/\ (last'.op \in CreateOps /\ last'.err # NoError)
            => storage' = storage /\ id_counter' = id_counter
       /\ (last'.op \in CreateOps /\ last'.err = NoError /\ issued' # issued)
            => last'.ret.id = Num(Len(issued[last'.mgr]) + 1)]_vars

\* a create_user call failed on its password after a user had been created
C2_Witness ==
    /\ last.op = "create_user"
    /\ last.err = "Password must be at least 8 characters long"
    /\ id_counter["users"] = 1

\* C3: an update_user or update_product call on an existing record that
\* fails validation writes nothing: the store, with every field of the
\* target record, is as before the call.
C3_FailedUpdateNoWrite ==
    [][(/\ last'.op \in UpdateOps
        /\ last'.id \in DOMAIN storage[last'.mgr]
        /\ last'.err # NoError)
            => storage' = storage /\ id_counter' = id_counter]_vars

\* update_product(id, name=<valid>, price=-10) failed on an existing product
C3_Witness ==
    /\ last.op = "update_product"
    /\ last.id \in DOMAIN storage["products"]
    /\ last.args.name = Cup
    /\ last.args.price = Num(-10)
    /\ last.err = "Price must be greater than 0"

\* C4: _get_record and _update_record called with an id that is not a key of
\* the store fail with "<entity_name> not found", and with "Record not found"
\* when no entity_name is given, whatever the updates.
C4_NotFoundMessage ==
    (/\ last.op \in {"_get_record", "_update_record"}
     /\ last.id \notin DOMAIN storage[last.mgr])
        => last.err = (IF last.args.entity_name = Omitted
                       THEN "Record"
                       ELSE last.args.entity_name) \o " not found"

\* _update_record with a non-None update failed with the label it was given
\* on an unknown id of a store that holds a record
C4_Witness ==
    /\ last.op = "_update_record"
    /\ last.args.entity_name = "Widget"
    /\ last.id \notin DOMAIN storage["base"]
    /\ \E k \in DOMAIN last.args.updates : last.args.updates[k] # None
    /\ id_counter["base"] > 0

\* C5: when an update or a get fails with not-found, the store and the id
\* counter are as before the call and there is no record under the id.
C5_NotFoundNoEffect ==
    [][(last'.err \in NotFoundErrors)
            => /\ storage' = storage
               /\ id_counter' = id_counter
               /\ last'.id \notin DOMAIN storage'[last'.mgr]]_vars

\* update_user failed with not-found in a manager that holds a user
C5_Witness ==
    /\ last.op = "update_user"
    /\ last.err = "User not found"
    /\ id_counter["users"] > 0


\* the rules of the field arguments of update_user and update_product: an
\* argument left as None passes
LongEnough(v, n) == v = None \/ (v.t = "str" /\ Len(v.s) >= n)
ValidUpdateArgs(l) ==
    IF l.op = "update_user"
    THEN /\ LongEnough(l.args.username, 3)
         /\ l.args.email = None \/ Contains("@", l.args.email)
         /\ LongEnough(l.args.password, 8)
    ELSE /\ LongEnough(l.args.name, 3)
         /\ LongEnough(l.args.description, 10)
         /\ l.args.price = None
                \/ (l.args.price.t = "num" /\ l.args.price.n > 0)

EntityOf(op) == IF op = "update_user" THEN "User" ELSE "Product"

\* C6 as stated: update_user and update_product called with an id that was
\* never issued fail with "User not found" / "Product not found" for every
\* combination of field arguments, invalid ones included.
C6_AlwaysNotFound ==
    (/\ last.op \in UpdateOps
     /\ last.id \notin DOMAIN storage[last.mgr])
        => last.err = EntityOf(last.op) \o " not found"

\* C6, amended: update_user and update_product called with an id that was
\* never issued fail with "User not found" / "Product not found" when every
\* supplied field argument is valid; when a supplied field is invalid the
\* call fails with a validation error instead, the fields being validated
\* before the id is looked up.
C6_NotFoundAfterValidation ==
    (/\ last.op \in UpdateOps
     /\ last.id \notin DOMAIN storage[last.mgr])
        => IF ValidUpdateArgs(last)
           THEN last.err = EntityOf(last.op) \o " not found"
           ELSE last.err \notin NotFoundErrors \cup {NoError}

\* update_user with valid fields failed with not-found on a never issued id
C6_Witness ==
    /\ last.op = "update_user"
    /\ last.id \notin DOMAIN storage["users"]
    /\ last.args.username = Anna
    /\ last.err = "User not found"

\* C7: created_at of every stored record keeps its value across update_user
\* and update_product calls, successful or failing, and across
\* _update_record calls whose updates carry domain fields only.
C7_CreatedAtImmutable ==
    [][~(/\ last'.op = "_update_record"
         /\ DOMAIN last'.args.updates \cap MetaKeys # {})
            => \A m \in Managers : \A id \in DOMAIN storage[m] :
                /\ id \in DOMAIN storage'[m]
                /\ storage'[m][id].created_at = storage[m][id].created_at]_vars

\* a successful update at a later clock reading than the creation
C7_Witness ==
    /\ last.op \in {"update_user", "_update_record"}
    /\ last.err = NoError
    /\ DOMAIN LastUpdates(last) \cap MetaKeys = {}
    /\ last.ret.updated_at # last.ret.created_at
    /\ last.ret.created_at = get_timestamp(0)

\* C8: every successful update call sets updated_at of its record to the
\* timestamp provider's value at the time of the call, whether or not a
\* field value changed.
C8_UpdatedAtRefreshed ==
    [][(/\ last'.op \in BaseUpdateOps
        /\ last'.err = NoError
        /\ CallStep)
            => storage'[last'.mgr][last'.id].updated_at = get_timestamp(now)]_vars

\* an update with every field None succeeded after the clock had advanced
C8_Witness ==
    /\ last.op = "update_product"
    /\ last.err = NoError
    /\ \A k \in DOMAIN last.args : last.args[k] = None
    /\ storage["products"][last.id].updated_at
            # storage["products"][last.id].created_at
    /\ now > 0

\* C9: with a non-decreasing timestamp provider, created_at <= updated_at (as
\* strings) for every record of a UserManager or ProductManager, right after
\* creation and after any updates.
C9_CreatedBeforeUpdated ==
    \A m \in Specialised : \A id \in DOMAIN storage[m] :
        StrLeq(storage[m][id].created_at, storage[m][id].updated_at)

\* a record just created whose two timestamps were read at different times
C9_Witness ==
    /\ last.op = "create_user"
    /\ last.err = NoError
    /\ last.ret.created_at # last.ret.updated_at

\* C10: a successful update overwrites exactly the keys of updates whose
\* value is not None with the new value; keys given as None and fields not
\* mentioned keep their value (updated_at apart, which takes the timestamp).
C10_PartialUpdate ==
    [][(/\ last'.op \in BaseUpdateOps
        /\ last'.err = NoError
        /\ CallStep)
            => LET u   == LastUpdates(last')
                   old == storage[last'.mgr][last'.id]
                   new == storage'[last'.mgr][last'.id]
                   set == {k \in DOMAIN u : u[k] # None}
               IN /\ DOMAIN new = DOMAIN old \cup set
                  /\ \A k \in set \ {"updated_at"} : new[k] = u[k]
                  /\ \A k \in DOMAIN old \ (set \cup {"updated_at"}) :
                        new[k] = old[k]]_vars

\* update_product(id, price=20) changed the price of a product and left its
\* name and description
C10_Witness ==
    /\ last.op = "update_product"
    /\ last.err = NoError
    /\ last.args = [name |-> None, description |-> None, price |-> Num(20)]
    /\ storage["products"][last.id].price = Num(20)
    /\ storage["products"][last.id].name = Cup
    /\ issued["products"] # <<>>


\* the rules of the claims on a supplied field value
AtLeast(v, n) == v # None /\ v.t = "str" /\ Len(v.s) >= n
HasAt(v) == v # None /\ v.t = "str" /\ \E i \in 1..Len(v.s) : v.s[i] = "@"
Positive(v) == v # None /\ v.t = "num" /\ v.n > 0

\* the validation error of the first offending field of a create or update
\* call l, in argument order; on update (skip) a None argument is passed over
FieldError(l, skip) ==
    LET off(v) == skip /\ v = None
    IN IF l.op \in {"create_user", "update_user"}
       THEN IF ~off(l.args.username) /\ ~AtLeast(l.args.username, 3)
            THEN "Username must be at least 3 characters long"
            ELSE IF ~off(l.args.email) /\ ~HasAt(l.args.email)
            THEN "Invalid email address"
            ELSE IF ~off(l.args.password) /\ ~AtLeast(l.args.password, 8)
            THEN "Password must be at least 8 characters long"
            ELSE NoError
       ELSE IF ~off(l.args.name) /\ ~AtLeast(l.args.name, 3)
            THEN "Product name must be at least 3 characters long"
            ELSE IF ~off(l.args.description) /\ ~AtLeast(l.args.description, 10)
            THEN "Description must be at least 10 characters long"
            ELSE IF ~off(l.args.price) /\ ~Positive(l.args.price)
            THEN "Price must be greater than 0"
            ELSE NoError

\* C11: create_user succeeds iff len(username) >= 3, '@' in email and
\* len(password) >= 8; create_product iff len(name) >= 3,
\* len(description) >= 10 and price > 0; every other call fails with the
\* validation error of the first offending field in argument order.
C11_CreateValidation ==
    last.op \in CreateOps => last.err = FieldError(last, FALSE)

\* create_product with a valid name and description was rejected for price 0
C11_Witness ==
    /\ last.op = "create_product"
    /\ last.args = [name |-> Cup, description |-> Desc10, price |-> Num(0)]
    /\ last.err = "Price must be greater than 0"

\* C12: on update a field argument left as None is never validated, and
\* every argument that is provided, the empty string and 0 included, is
\* checked by the rule of create and makes the whole call fail when it
\* breaks the rule.
C12_UpdateValidation ==
    last.op \in UpdateOps =>
        IF FieldError(last, TRUE) # NoError
        THEN last.err = FieldError(last, TRUE) /\ last.ret = None
        ELSE last.err \in {NoError, EntityOf(last.op) \o " not found"}

\* update_product(id, price=0) on an existing product was rejected
C12_Witness ==
    /\ last.op = "update_product"
    /\ last.id \in DOMAIN storage["products"]
    /\ last.args = [name |-> None, description |-> None, price |-> Num(0)]
    /\ last.err = "Price must be greater than 0"

\* C14: each successful create_user / create_product / update_user /
\* update_product call prints exactly one line and a failing call prints
\* none; the create line names the supplied username / name, the update line
\* the username / name stored in the record after the update.
C14_OneLogLine ==
    last.op \in CreateOps \cup UpdateOps =>
        IF last.err # NoError
        THEN last.log = <<>>
        ELSE last.log = <<
            CASE last.op = "create_user" ->
                    <<"User created: ", last.args.username>>
              [] last.op = "create_product" ->
                    <<"Product created: ", last.args.name>>
              [] last.op = "update_user" ->
                    <<"User updated: ", storage["users"][last.id].username>>
              [] last.op = "update_product" ->
                    <<"Product updated: ", storage["products"][last.id].name>> >>

\* update_product(id, price=20) printed the name the product already had
C14_Witness ==
    /\ last.op = "update_product"
    /\ last.err = NoError
    /\ last.args.name = None
    /\ last.log = << <<"Product updated: ", Cup>> >>


\* C13: each manager instance owns its store and id counter: a call on one
\* instance leaves the store and the counter of every other instance as they
\* were, and the first create of every fresh instance is stored under id 1.
C13_InstancesIndependent ==
    [][/\ \A m \in Managers \ {last'.mgr} :
            storage'[m] = storage[m] /\ id_counter'[m] = id_counter[m]
       /\ (/\ last'.op \in CreateOps \cup {"_create_record"}
           /\ last'.err = NoError
           /\ issued' # issued
           /\ storage[last'.mgr] = EmptyStore)
            => /\ id_counter'[last'.mgr] = 1
               /\ DOMAIN storage'[last'.mgr] = {1}
               /\ last'.ret.id = Num(1)]_vars

\* three managers hold a record each and one of them was updated
C13_Witness ==
    /\ \A m \in Managers : id_counter[m] = 1 /\ DOMAIN storage[m] = {1}
    /\ last.op = "update_user"
    /\ last.err = NoError


\* C15: every search_records call on an OptimizedDataProcessor returns the
\* records of the list passed to that call whose record[key] equals the
\* value, as DataProcessor.search_records does, whatever was searched before.
C15_SameAsLinearSearch ==
    call.op = "search_records" => call.optimized = call.naive

\* the n-th Fibonacci number, computed bottom-up
RECURSIVE FibFrom(_, _, _)
FibFrom(a, b, k) == IF k = 0 THEN a ELSE FibFrom(b, a + b, k - 1)

Fibonacci(n) == FibFrom(0, 1, n)

\* C20: the memoized compute_fibonacci(n) equals the plain recursive
\* compute_fibonacci(n) and the n-th Fibonacci number, whatever earlier calls
\* left in the cache.
C20_MemoizedFibonacci ==
    call.op = "compute_fibonacci"
        => /\ call.optimized = call.naive
           /\ call.optimized = Fibonacci(call.args.n)
           /\ \A k \in DOMAIN fib_cache : fib_cache[k] = Fibonacci(k)

\* a number computed on top of what an earlier call cached
C20_Witness ==
    /\ call.op = "compute_fibonacci"
    /\ call.args.n = 6
    /\ call.before = 0..4
    /\ call.optimized = 8


\* a call of op has returned
Done(op) == call.op = op /\ call.pc = "done"

\* the number of times v occurs in items
Count(items, v) == Cardinality({i \in DOMAIN items : items[i] = v})

\* the index before the first character of words[i] in the joined string
RECURSIVE Offset(_, _)
Offset(words, i) ==
    IF i = 1 THEN 0 ELSE Offset(words, i - 1) + Len(words[i - 1]) + 1

\* result is the words in order with one space between neighbours
JoinedBySingleSpaces(result, words) ==
    IF words = <<>> THEN result = <<>>
    ELSE /\ Len(result) = Offset(words, Len(words)) + Len(words[Len(words)])
         /\ \A i \in DOMAIN words :
                /\ \A k \in 1..Len(words[i]) :
                       result[Offset(words, i) + k] = words[i][k]
                /\ i < Len(words)
                    => result[Offset(words, i) + Len(words[i]) + 1] = " "

\* C16: the two string_operations return the same string for every list of
\* words: the words joined by single spaces, the empty string for no words.
C16_SameJoinedString ==
    Done("string_operations")
        => /\ call.naive = call.optimized
           /\ JoinedBySingleSpaces(call.naive, call.args.words)
           /\ JoinedBySingleSpaces(call.optimized, call.args.words)

\* C17: the two find_duplicates return the same set of elements: the values
\* that occur at least twice in the input, each listed once (so nothing when
\* the items are distinct).
C17_SameDuplicates ==
    Done("find_duplicates")
        => LET twice == {v \in ToSet(call.args.items) :
                             Count(call.args.items, v) >= 2}
           IN  /\ ToSet(call.naive) = twice
               /\ ToSet(call.optimized) = twice
               /\ Len(call.naive) = Cardinality(twice)
               /\ Len(call.optimized) = Cardinality(twice)

\* an item that occurs three times is reported once
C17_Witness ==
    /\ Done("find_duplicates")
    /\ call.args.items = <<1, 1, 1>>
    /\ call.naive = <<1>>
    /\ call.optimized = <<1>>

\* C18: the two filter_and_transform return the identical list: the squares
\* of the items strictly greater than the threshold, ascending, each as often
\* as its items occur.
C18_SameSortedSquares ==
    Done("filter_and_transform")
        => LET data == call.args.data
               passing == {i \in DOMAIN data : data[i] > call.args.threshold}
               result == call.optimized
           IN  /\ call.naive = call.optimized
               /\ \A i, j \in DOMAIN result : i <= j => result[i] <= result[j]
               /\ Len(result) = Cardinality(passing)
               /\ \A v \in 0..(MaxItem * MaxItem) :
                      Count(result, v)
                      = Cardinality({i \in passing : data[i] * data[i] = v})

\* negative and repeated items above a negative threshold
C18_Witness ==
    /\ Done("filter_and_transform")
    /\ call.args.data = <<2, 0 - 1, 0 - 1>>
    /\ call.args.threshold = 0 - 2
    /\ call.optimized = <<1, 1, 4>>

\* C19: the two merge_datasets return lists with the same set of elements,
\* the union of the two inputs, each element once.
C19_SameUnion ==
    Done("merge_datasets")
        => LET union == ToSet(call.args.dataset1) \cup ToSet(call.args.dataset2)
           IN  /\ ToSet(call.naive) = union
               /\ ToSet(call.optimized) = union
               /\ Len(call.naive) = Cardinality(union)
               /\ Len(call.optimized) = Cardinality(union)

\* overlapping datasets, merged in two different orders
C19_Witness ==
    /\ Done("merge_datasets")
    /\ call.args.dataset1 = <<1, 0>>
    /\ call.args.dataset2 = <<0, 2>>
    /\ call.naive = <<1, 0, 2>>
    /\ call.optimized = <<0, 1, 2>>


AllCreateOps == CreateOps \cup {"_create_record"}

\* C22: the id field of every stored record is the id allocated for it, the
\* key it is stored under, whatever fields and updates the callers passed.
C22_IdIsKey ==
    \A m \in Managers : \A k \in DOMAIN storage[m] : storage[m][k].id = Num(k)

\* C23: a record just created holds the same timestamp as created_at and as
\* updated_at, whatever the clock did between the reads.
C23_SameTimestamps ==
    (last.op \in AllCreateOps /\ last.err = NoError)
        => last.ret.created_at = last.ret.updated_at

C25_GetReadOnly ==
    [][(last'.op = "_get_record" /\ CallStep)
            => /\ storage' = storage
               /\ id_counter' = id_counter
               /\ last'.id \in DOMAIN storage[last'.mgr]
                    => /\ last'.err = NoError
                       /\ last'.ret = storage[last'.mgr][last'.id]
                       /\ (/\ last.op = "_get_record"
                           /\ last.mgr = last'.mgr
                           /\ last.id = last'.id)
                            => last'.ret = last.ret]_vars

\* a record read after it was updated at a later clock reading
C25_Witness ==
    /\ last.op = "_get_record"
    /\ last.err = NoError
    /\ last.mgr = "users"
    /\ last.ret.updated_at # last.ret.created_at
    /\ last.ret = storage["users"][last.id]


\* C28: every stored user has a username of 3 characters or more, an email
\* with an '@' and a password of 8 characters or more, and every stored
\* product a name of 3 or more, a description of 10 or more and a price
\* above 0, after any creates and updates, successful or failing.
C28_StoredRecordsValid ==
    /\ \A k \in DOMAIN storage["users"] :
        LET user == storage["users"][k]
        IN  /\ AtLeast(user.username, 3)
            /\ HasAt(user.email)
            /\ AtLeast(user.password, 8)
    /\ \A k \in DOMAIN storage["products"] :
        LET product == storage["products"][k]
        IN  /\ AtLeast(product.name, 3)
            /\ AtLeast(product.description, 10)
            /\ Positive(product.price)

\* an update whose first field is valid and whose second is not was
\* rejected, and the stored user still has its username
C28_Witness ==
    /\ last.op = "update_user"
    /\ last.args.username = Anna
    /\ last.args.email = Ab
    /\ last.err = "Invalid email address"
    /\ last.id \in DOMAIN storage["users"]
    /\ storage["users"][last.id].username = Bob

\* C29: the keys of the store of a UserManager or ProductManager are
\* 1.._id_counter; a key is never removed and is added only by a successful
\* create, as the next id.
C29_KeysAreIssuedIds ==
    [][\A m \in Specialised :
        /\ DOMAIN storage'[m] = 1..id_counter'[m]
        /\ DOMAIN storage[m] \subseteq DOMAIN storage'[m]
        /\ DOMAIN storage'[m] # DOMAIN storage[m]
            => /\ last'.op \in CreateOps
               /\ last'.mgr = m
               /\ last'.err = NoError
               /\ DOMAIN storage'[m] = DOMAIN storage[m]
                                        \cup {id_counter[m] + 1}]_vars

\* a full product store after an update of an id that was never issued
C29_Witness ==
    /\ Cardinality(DOMAIN storage["products"]) = MaxId
    /\ id_counter["products"] = MaxId
    /\ last.op = "update_product"
    /\ last.id = MaxId + 1
    /\ last.err = "Product not found"

\* C30: a stored record changes only in a successful update of its own id:
\* an update leaves the records of every other id as they were, updated_at
\* included, and a create leaves every record stored before it.
C30_OnlyOwnRecord ==
    [][\A m \in Managers : \A k \in DOMAIN storage[m] :
        /\ k \in DOMAIN storage'[m]
        /\ storage'[m][k] # storage[m][k]
            => /\ last'.op \in BaseUpdateOps
               /\ last'.err = NoError
               /\ last'.mgr = m
               /\ last'.id = k]_vars

\* the second of two users updated at a later clock reading; the first
\* still as created
C30_Witness ==
    /\ last.op = "update_user"
    /\ last.err = NoError
    /\ last.id = 2
    /\ now > 0
    /\ storage["users"][1].updated_at = get_timestamp(0)
    /\ storage["users"][2].updated_at = get_timestamp(now)


\* C21: for non-empty rectangular matrices the two matrix_multiply fail
\* with the ValueError of incompatible dimensions when the first has not as
\* many columns as the second has rows, and otherwise return the same matrix
\* of rows1 rows and cols2 columns; a product with the identity is the other
\* matrix.
C21_SameProduct ==
    Done("matrix_multiply")
        => LET matrix1 == call.args.matrix1
               matrix2 == call.args.matrix2
           IN  IF Len(matrix1[1]) # Len(matrix2)
               THEN /\ call.naive.err = "Matrix dimensions incompatible"
                    /\ call.optimized.err = "Matrix dimensions incompatible"
               ELSE /\ call.naive.err = NoError
                    /\ call.optimized.err = NoError
                    /\ call.naive.ret = call.optimized.ret
                    /\ Len(call.naive.ret) = Len(matrix1)
                    /\ \A i \in DOMAIN call.naive.ret :
                           Len(call.naive.ret[i]) = Len(matrix2[1])
                    /\ matrix2 = Identity(Len(matrix2))
                        => call.naive.ret = matrix1
                    /\ matrix1 = Identity(Len(matrix1))
                        => call.naive.ret = matrix2

\* the product of the tests
C21_Witness ==
    /\ Done("matrix_multiply")
    /\ call.args.matrix1 = <<<<1, 2>>, <<3, 4>>>>
    /\ call.args.matrix2 = <<<<5, 6>>, <<7, 8>>>>
    /\ call.optimized.ret = <<<<19, 22>>, <<43, 50>>>>
    /\ call.naive.ret = <<<<19, 22>>, <<43, 50>>>>

\* C27: efficient_list_concatenation returns the same string as
\* inefficient_list_concatenation for every list of items.
C27_SameConcatenation ==
    Done("list_concatenation") => call.naive = call.optimized


\* C26: after the same add_item and remove_item calls on both structures,
\* has_item gives the same answer in both for every item, an item is present
\* exactly when its last add was not followed by a remove, and the list holds
\* no item twice.
C26_SameMembership ==
    /\ \A x \in Items :
        /\ Inefficient_has_item(structures.inefficient, x)
           = Efficient_has_item(structures.efficient, x)
        /\ Efficient_has_item(structures.efficient, x) = (x \in structures.live)
        /\ Count(structures.inefficient, x) <= 1
    /\ call.op = "has_item" => call.naive = call.optimized

\* an item was added that both structures already held
C26_Witness ==
    /\ call.op = "add_item"
    /\ call.args.item = 1
    /\ call.before = {0, 1}
    /\ structures.inefficient = <<1, 0>>
    /\ structures.efficient = {0, 1}

====
